---- MODULE Spec2Model ----
(***************************************************************************)
(* A model of HTMLGen.py: the container composition model (flattening,     *)
(* call-to-copy, rendering) of TagList and Tag, and the Pseudotags LABIN,  *)
(* SIMPLEPAGE, PAGE and JQPAGE built on it.                                *)
(*                                                                         *)
(* The Python heap is modelled explicitly.  Containers, contents lists and *)
(* attribute dicts each live in a store and are named by their index, so   *)
(* that two containers sharing one list (a Pseudotag and its inner Tag) or *)
(* not sharing one (a container and its extension) is a fact of the state. *)
(* Text is rendered to real strings.                                       *)
(***************************************************************************)
EXTENDS Integers, Sequences, FiniteSets, TLC

VARIABLES
    objs,     \* the containers created so far: Seq of container records
    lists,    \* the contents lists (Python list objects), by list id
    dicts,    \* the attrs dicts (Python dict objects, insertion ordered), by dict id
    spacer,   \* HTMLContainer.spacer, the class attribute
    err,      \* the exception the last operation raised, "" if none
    last      \* the last operation: what was called, on what, with which arguments

vars == <<objs, lists, dicts, spacer, err, last>>

-----------------------------------------------------------------------------
(* Bounds of the model.                                                    *)

\* Containers created on top of the module's own (the catalog and GETJQ).
MaxObjs == 2

\* Pseudotags created.
MaxPseudo == 2

\* Length up to which the list-style operations grow a contents list.
MaxLen == 2

-----------------------------------------------------------------------------
(* Python values.  One record shape for all of them: t is the type, s the  *)
(* text of a str (or the key of a dict item, or what str() gives for a     *)
(* custom object), n the number of an int or bool (or the id of the        *)
(* container a reference points to, or a custom object's _HTMLAtomic),     *)
(* items the elements of an iterable.                                      *)

PyVal(t, s, n, items) == [t |-> t, s |-> s, n |-> n, items |-> items]

PyStr(s) == PyVal("str", s, 0, <<>>)

PyInt(n) == PyVal("int", "", n, <<>>)

PyBool(b) == PyVal("bool", "", IF b THEN 1 ELSE 0, <<>>)

PyNone == PyVal("none", "", 0, <<>>)

\* A list, tuple or generator.
PyList(items) == PyVal("list", "", 0, items)

\* An iterable object of a class of the caller's, with an _HTMLAtomic
\* attribute of the given value and a __str__ giving s.
PyObj(s, marker, items) == PyVal("obj", s, marker, items)

\* A reference to the container objs[i].
Ref(i) == PyVal("ref", "", i, <<>>)

\* One item k : v of a dict; a dict is the sequence of its items in
\* insertion order.
Pair(k, v) == PyVal("pair", k, 0, <<v>>)

PyDict(d) == PyVal("dict", "", 0, d)

PyTrue == PyBool(TRUE)

PyFalse == PyBool(FALSE)

\* bool(x) for the values the model passes to vif.
Truthy(x) ==
    CASE x.t = "str" -> x.s # ""
      [] x.t \in {"int", "bool"} -> x.n # 0
      [] x.t = "none" -> FALSE
      [] x.t \in {"list", "dict"} -> x.items # <<>>
      [] OTHER -> TRUE

\* x == y for the values compared by `in`: numbers (bool is a subclass of
\* int) compare by value, anything else only to its own kind.
PyEq(x, y) ==
    IF x.t \in {"int", "bool"} /\ y.t \in {"int", "bool"}
    THEN x.n = y.n
    ELSE x = y

-----------------------------------------------------------------------------
(* dict operations, on sequences of items.                                 *)

DictKeys(d) == {d[i].s : i \in DOMAIN d}

DictHas(d, k) == \E i \in DOMAIN d : d[i].s = k

DictGet(d, k) == d[CHOOSE i \in DOMAIN d : d[i].s = k].items[1]

\* d[k] = v: a key already there keeps its place.
DictSet(d, k, v) ==
    IF DictHas(d, k)
    THEN [i \in DOMAIN d |-> IF d[i].s = k THEN Pair(k, v) ELSE d[i]]
    ELSE Append(d, Pair(k, v))

RECURSIVE DictUpdate(_, _)
\* d.update(e)
DictUpdate(d, e) ==
    IF e = <<>> THEN d
    ELSE DictUpdate(DictSet(d, e[1].s, e[1].items[1]), Tail(e))

-----------------------------------------------------------------------------
(* HTMLContainer                                                           *)

NORMAL == 0

LONE == 1

FORCED_PAIR == 2

PseudoClasses == {"LABIN", "SIMPLEPAGE", "PAGE", "JQPAGE"}

\* Mutant: no key is renamed.
SpecialAttrs_NoRename(k) == k

\* _specialAttrs.get(k, k)
SpecialAttrs(k) ==
    IF k = "for_" THEN "for"
    ELSE IF k = "class_" THEN "class"
    ELSE k

RECURSIVE RemapInto(_, _)
RemapInto(acc, attrs) ==
    IF attrs = <<>> THEN acc
    ELSE RemapInto(DictSet(acc, SpecialAttrs(attrs[1].s), attrs[1].items[1]),
                   Tail(attrs))

\* {self._specialAttrs.get(k, k) : v for k, v in attrs.items()}
RemapAttrs(attrs) == RemapInto(<<>>, attrs)

\* Mutant: TagList does not set _HTMLAtomic to False.
ClassAtomic_Inherited(cls) == TRUE

\* The class attribute _HTMLAtomic of a container's class.
ClassAtomic(cls) == cls # "TagList"

\* hasattr(x, '_HTMLAtomic') and x._HTMLAtomic
MarkedAtomic(H, x) ==
    \/ x.t = "ref" /\ ClassAtomic(H.objs[x.n].cls)
    \/ x.t = "obj" /\ x.n # 0

\* _atomicOverride
AtomicOverride(H, x) ==
    IF x.t = "str" THEN TRUE
    ELSE IF MarkedAtomic(H, x) THEN TRUE
    ELSE FALSE

\* Whether iter(x) succeeds: a container is iterable through __getitem__.
Iterable(x) == x.t \in {"list", "obj", "ref", "dict"}

\* What iter(x) yields, in order.
IterItems(H, x) ==
    CASE x.t = "ref" -> H.lists[H.objs[x.n].contents]
      [] x.t = "dict" -> [i \in DOMAIN x.items |-> PyStr(x.items[i].s)]
      [] OTHER -> x.items

\* Mutant: no value is walked into.
RFlatten_Shallow(H, contents, x) == Append(contents, x)

RECURSIVE RFlatten(_, _, _), FlattenEach(_, _, _)
\* _r_flatten: the contents list after self._r_flatten(x)
RFlatten(H, contents, x) ==
    IF AtomicOverride(H, x) THEN Append(contents, x)
    ELSE IF ~Iterable(x) THEN Append(contents, x)
    ELSE FlattenEach(H, contents, IterItems(H, x))

\* for sub in it: self._r_flatten(sub)
FlattenEach(H, contents, it) ==
    IF it = <<>> THEN contents
    ELSE FlattenEach(H, RFlatten(H, contents, it[1]), Tail(it))

\* The tagType test of Tag.digest.
KindKnown(tagType) ==
    \E k \in {NORMAL, LONE, FORCED_PAIR} : PyEq(tagType, PyInt(k))

\* digest: the contents, the extra arguments, and what it sets on self; or
\* the exception raised.  The message of the ValueError is built with %d,
\* which itself raises TypeError for a tagType that is not a number.
Digest(cls, args) ==
    LET none == [err |-> "", contents |-> <<>>, extraArgs |-> <<>>,
                 tagName |-> PyNone, tagType |-> PyNone]
    IN  IF cls = "TagList"
        THEN [none EXCEPT !.contents = args]
        ELSE IF Len(args) < 2
        THEN [none EXCEPT !.err = "ValueError"]
        ELSE IF ~KindKnown(args[2])
        THEN [none EXCEPT !.err = IF args[2].t \in {"int", "bool"}
                                  THEN "ValueError" ELSE "TypeError"]
        ELSE [err |-> "", contents |-> SubSeq(args, 3, Len(args)),
              extraArgs |-> <<args[1], args[2]>>,
              tagName |-> args[1], tagType |-> args[2]]

\* A container record; contents and attrs are ids into lists and dicts,
\* inner and outer are container ids (0: has none).
Container(cls, d, lid, did, inner, outer) ==
    [cls |-> cls, extraArgs |-> d.extraArgs, contents |-> lid, attrs |-> did,
     tagName |-> d.tagName, tagType |-> d.tagType,
     inner |-> inner, outer |-> outer]

\* HTMLContainer.__init__ for TagList and Tag: the heap afterwards and the
\* id of the new container, or the exception (and the heap as it was).
ContainerInit(H, cls, args, attrs) ==
    LET d == Digest(cls, args)
    IN  IF d.err # ""
        THEN [h |-> H, id |-> 0, err |-> d.err]
        ELSE [h |-> [objs |-> Append(H.objs,
                                 Container(cls, d, Len(H.lists) + 1,
                                           Len(H.dicts) + 1, 0, 0)),
                     lists |-> Append(H.lists, FlattenEach(H, <<>>, d.contents)),
                     dicts |-> Append(H.dicts, RemapAttrs(attrs))],
              id |-> Len(H.objs) + 1,
              err |-> ""]

-----------------------------------------------------------------------------
(* __call__                                                                *)

\* Mutant: the new attributes are dropped.
CallTempAttrs_NoUpdate(H, c, newAttrs) ==
    [h |-> H, temp |-> H.dicts[H.objs[c].attrs]]

\* Mutant: no copy, self.attrs itself is updated.
CallTempAttrs_NoCopy(H, c, newAttrs) ==
    [h |-> [H EXCEPT !.dicts[H.objs[c].attrs] = DictUpdate(@, newAttrs)],
     temp |-> DictUpdate(H.dicts[H.objs[c].attrs], newAttrs)]

\* tempAttrs = self.attrs.copy(); tempAttrs.update(newAttrs): the heap
\* afterwards (the copy leaves self.attrs alone) and tempAttrs.
CallTempAttrs(H, c, newAttrs) ==
    [h |-> H, temp |-> DictUpdate(H.dicts[H.objs[c].attrs], newAttrs)]

\* self.extraArgs + self.contents + list(newContents): a new list.
CallArgs(H, c, newContents) ==
    H.objs[c].extraArgs \o H.lists[H.objs[c].contents] \o newContents

\* What a constructor gives: the new container, or the exception and the
\* heap as the caller then finds it.
OrRaise(r, H) ==
    IF r.err # "" THEN [h |-> H, id |-> 0, err |-> r.err] ELSE r

\* return type(self)(*(...), **tempAttrs) for a TagList or Tag, t what
\* CallTempAttrs gave
CallConstruct(t, c, newContents) ==
    OrRaise(ContainerInit(t.h, t.h.objs[c].cls, CallArgs(t.h, c, newContents),
                          t.temp),
            t.h)

\* __call__ of a TagList or Tag
CallTag(H, c, newContents, newAttrs) ==
    CallConstruct(CallTempAttrs(H, c, newAttrs), c, newContents)

-----------------------------------------------------------------------------
(* The tags the module defines when it is loaded (those the model uses),   *)
(* in the module's order, and GETJQ.                                       *)

Catalog ==
    << [id |-> "BR", name |-> "br", kind |-> LONE],
       [id |-> "BODY", name |-> "body", kind |-> NORMAL],
       [id |-> "DIV", name |-> "div", kind |-> NORMAL],
       [id |-> "HEAD", name |-> "head", kind |-> NORMAL],
       [id |-> "HTML", name |-> "html", kind |-> NORMAL],
       [id |-> "INPUT", name |-> "input", kind |-> NORMAL],
       [id |-> "LABEL", name |-> "label", kind |-> NORMAL],
       [id |-> "LINK", name |-> "link", kind |-> NORMAL],
       [id |-> "TITLE", name |-> "title", kind |-> NORMAL],
       [id |-> "SCRIPT", name |-> "script", kind |-> FORCED_PAIR] >>

\* The container a module-level name is bound to.
Cat(id) == CHOOSE i \in DOMAIN Catalog : Catalog[i].id = id

GETJQ == Len(Catalog) + 1

JQueryURL == "http://ajax.googleapis.com/ajax/libs/jquery/1.11.3/jquery.min.js"

RECURSIVE LoadCatalog(_, _)
\* sys.modules[__name__].__dict__[k] = Tag(v, kind), for the first n entries
LoadCatalog(H, n) ==
    IF n = 0 THEN H
    ELSE ContainerInit(LoadCatalog(H, n - 1), "Tag",
                       <<PyStr(Catalog[n].name), PyInt(Catalog[n].kind)>>,
                       <<>>).h

\* The heap once the module is loaded.
ModuleHeap ==
    CallTag(LoadCatalog([objs |-> <<>>, lists |-> <<>>, dicts |-> <<>>],
                              Len(Catalog)),
                  Cat("SCRIPT"), <<>>, <<Pair("src", PyStr(JQueryURL))>>).h

\* vif(c, x), the two-argument form the module uses
Vif(c, x) == IF Truthy(c) THEN x ELSE PyStr("")

-----------------------------------------------------------------------------
(* Pseudotag                                                               *)

Range(s) == {s[i] : i \in DOMAIN s}

\* Python's binding of a call f(*args, **attrs) to the named parameters
\* params, of which the first nRequired have no default: TypeError when a
\* parameter is given twice, when one is missing, or (no *args) when there
\* are too many positional arguments.
BindError(params, nRequired, varArgs, args, attrs) ==
    \/ \E i \in DOMAIN params : i <= Len(args) /\ DictHas(attrs, params[i])
    \/ \E i \in 1..nRequired : i > Len(args) /\ ~DictHas(attrs, params[i])
    \/ ~varArgs /\ Len(args) > Len(params)

\* The value parameter i is bound to.
BindParam(params, i, args, attrs, default) ==
    IF i <= Len(args) THEN args[i]
    ELSE IF DictHas(attrs, params[i]) THEN DictGet(attrs, params[i])
    ELSE default

\* **kwargs: the keyword arguments that name no parameter.
BindKwargs(params, attrs) ==
    SelectSeq(attrs, LAMBDA p : p.s \notin Range(params))

\* What a heart or skeleton gives back: the heap, the value, the exception.
Ret(H, v, e) == [h |-> H, ret |-> v, err |-> e]

\* A heart's return value: the tag just made, then the extra arguments.
HeartRet(tag, extra) == Ret(tag.h, PyList(<<Ref(tag.id)>> \o extra), "")

\* A skeleton's return value: the container just made.
SkeletonRet(r) == Ret(r.h, Ref(r.id), "")

\* TagList(*before, r, *after), r a container just made
TagListAround(before, r, after) ==
    ContainerInit(r.h, "TagList", before \o <<Ref(r.id)>> \o after, <<>>)

LabinParams == <<"labelText", "name", "labelAttrs">>

\* LABIN.heart
LabinHeart(H, args, attrs) ==
    IF BindError(LabinParams, 2, FALSE, args, attrs)
    THEN Ret(H, PyNone, "TypeError")
    ELSE HeartRet(CallTag(H, Cat("INPUT"), <<>>,
                          <<Pair("name", BindParam(LabinParams, 2, args, attrs, PyNone))>>
                          \o BindKwargs(LabinParams, attrs)),
                  <<BindParam(LabinParams, 1, args, attrs, PyNone),
                    BindParam(LabinParams, 2, args, attrs, PyNone),
                    BindParam(LabinParams, 3, args, attrs, PyDict(<<>>))>>)

\* LABEL(for_ = name, **labelAttrs)(labelText)
LabinLabel(label, labelText) == CallTag(label.h, label.id, <<labelText>>, <<>>)

\* LABIN.skeleton(inner, labelText, name, labelAttrs), sargs its arguments
LabinSkeleton(H, sargs) ==
    IF Len(sargs) # 4 \/ DictHas(sargs[4].items, "for_")
    THEN Ret(H, PyNone, "TypeError")
    ELSE SkeletonRet(
           TagListAround(<<>>,
               LabinLabel(CallTag(H, Cat("LABEL"), <<>>,
                                  <<Pair("for_", sargs[3])>> \o sargs[4].items),
                          sargs[2]),
               <<sargs[1]>>))

\* SIMPLEPAGE.heart: returns the HTML tag itself, not a tuple
SimplepageHeart(H, args, attrs) ==
    SkeletonRet(CallTag(H, Cat("HTML"), args, attrs))

\* Tag('!DOCTYPE', Tag.LONE, html = True)
Doctype(H) ==
    ContainerInit(H, "Tag", <<PyStr("!DOCTYPE"), PyInt(LONE)>>,
                  <<Pair("html", PyTrue)>>)

\* SIMPLEPAGE.skeleton(inner), sargs its arguments
SimplepageSkeleton(H, sargs) ==
    IF Len(sargs) # 1
    THEN Ret(H, PyNone, "TypeError")
    ELSE SkeletonRet(TagListAround(<<>>, Doctype(H), <<sargs[1]>>))

PageParams == <<"title", "css">>

\* PageWrapper.heart
PageHeart(H, args, attrs) ==
    IF BindError(PageParams, 2, TRUE, args, attrs)
    THEN Ret(H, PyNone, "TypeError")
    ELSE HeartRet(CallTag(H, Cat("BODY"), SubSeq(args, 3, Len(args)),
                          BindKwargs(PageParams, attrs)),
                  <<BindParam(PageParams, 1, args, attrs, PyNone),
                    BindParam(PageParams, 2, args, attrs, PyNone)>>)

\* LINK(rel = 'stylesheet', href = css), made after t = TITLE(title): as an
\* argument of vif it is made whatever css is
HeadLink(t, css) ==
    [title |-> t.id,
     link |-> CallTag(t.h, Cat("LINK"), <<>>,
                      <<Pair("rel", PyStr("stylesheet")), Pair("href", css)>>)]

\* HEAD(TITLE(title), vif(css, LINK(...))), and GETJQ in a JQPAGE
HeadOf(tl, cls, css) ==
    CallTag(tl.link.h, Cat("HEAD"),
            <<Ref(tl.title), Vif(css, Ref(tl.link.id))>>
            \o (IF cls = "JQPAGE" THEN <<Ref(GETJQ)>> ELSE <<>>),
            <<>>)

\* PAGE.head and JQPAGE.head
PageHead(H, cls, title, css) ==
    HeadOf(HeadLink(CallTag(H, Cat("TITLE"), <<title>>, <<>>), css), cls, css)

\* HTML(self.head(title, css), inner)
PageHtml(head, inner) ==
    CallTag(head.h, Cat("HTML"), <<Ref(head.id), inner>>, <<>>)

\* TagList(doctype, HTML(...)), doctype the tag just made
PageAround(doctype, cls, sargs) ==
    TagListAround(<<Ref(doctype.id)>>,
                  PageHtml(PageHead(doctype.h, cls, sargs[2], sargs[3]), sargs[1]),
                  <<>>)

\* PageWrapper.skeleton(inner, title, css), sargs its arguments
PageSkeleton(H, cls, sargs) ==
    IF Len(sargs) # 3
    THEN Ret(H, PyNone, "TypeError")
    ELSE SkeletonRet(PageAround(Doctype(H), cls, sargs))

\* self.heart(*args, **attrs)
Heart(H, cls, args, attrs) ==
    CASE cls = "LABIN" -> LabinHeart(H, args, attrs)
      [] cls = "SIMPLEPAGE" -> SimplepageHeart(H, args, attrs)
      [] OTHER -> PageHeart(H, args, attrs)

\* self.skeleton(self.inner, *self.extraArgs)
Skeleton(H, cls, sargs) ==
    CASE cls = "LABIN" -> LabinSkeleton(H, sargs)
      [] cls = "SIMPLEPAGE" -> SimplepageSkeleton(H, sargs)
      [] OTHER -> PageSkeleton(H, cls, sargs)

\* Mutant: the Pseudotag gets a list of its own, a copy of the inner's.
PseudotagFinish_OwnList(cls, attrs, got, outer) ==
    IF outer.err # "" THEN outer
    ELSE IF got[1].t # "ref" THEN [outer EXCEPT !.err = "AttributeError"]
    ELSE [h |-> [objs |-> Append(outer.h.objs,
                             [cls |-> cls, extraArgs |-> Tail(got),
                              contents |-> Len(outer.h.lists) + 1,
                              attrs |-> Len(outer.h.dicts) + 1,
                              tagName |-> PyNone, tagType |-> PyNone,
                              inner |-> got[1].n, outer |-> outer.ret.n]),
                 lists |-> Append(outer.h.lists,
                                  outer.h.lists[outer.h.objs[got[1].n].contents]),
                 dicts |-> Append(outer.h.dicts, RemapAttrs(attrs))],
          id |-> Len(outer.h.objs) + 1,
          err |-> ""]

\* self.contents = self.inner.contents; self.attrs = {...}: the Pseudotag
\* shares the list of its inner container, which must be one
PseudotagFinish(cls, attrs, got, outer) ==
    IF outer.err # "" THEN outer
    ELSE IF got[1].t # "ref" THEN [outer EXCEPT !.err = "AttributeError"]
    ELSE [h |-> [objs |-> Append(outer.h.objs,
                             [cls |-> cls, extraArgs |-> Tail(got),
                              contents |-> outer.h.objs[got[1].n].contents,
                              attrs |-> Len(outer.h.dicts) + 1,
                              tagName |-> PyNone, tagType |-> PyNone,
                              inner |-> got[1].n, outer |-> outer.ret.n]),
                 lists |-> outer.h.lists,
                 dicts |-> Append(outer.h.dicts, RemapAttrs(attrs))],
          id |-> Len(outer.h.objs) + 1,
          err |-> ""]

\* self.inner, *self.extraArgs = ...: got is what iterating heart's return
\* value gives; self.outer = self.skeleton(self.inner, *self.extraArgs)
PseudotagUnpack(G, cls, attrs, got) ==
    IF got = <<>> THEN [h |-> G, id |-> 0, err |-> "ValueError"]
    ELSE PseudotagFinish(cls, attrs, got, Skeleton(G, cls, got))

\* self.heart(*args, **attrs) returned (or raised)
PseudotagHeart(cls, attrs, heart) ==
    IF heart.err # "" THEN [h |-> heart.h, id |-> 0, err |-> heart.err]
    ELSE PseudotagUnpack(heart.h, cls, attrs, IterItems(heart.h, heart.ret))

\* Pseudotag.__init__
PseudotagInit(H, cls, args, attrs) ==
    OrRaise(PseudotagHeart(cls, attrs, Heart(H, cls, args, attrs)), H)

\* cls(*args, **attrs)
Construct(H, cls, args, attrs) ==
    IF cls \in PseudoClasses
    THEN PseudotagInit(H, cls, args, attrs)
    ELSE ContainerInit(H, cls, args, attrs)

\* return type(self)(*(...), **tempAttrs) for any container
CallConstructAny(t, c, newContents) ==
    OrRaise(Construct(t.h, t.h.objs[c].cls, CallArgs(t.h, c, newContents),
                      t.temp),
            t.h)

\* __call__ of any container
CallContainer(H, c, newContents, newAttrs) ==
    CallConstructAny(CallTempAttrs(H, c, newAttrs), c, newContents)

-----------------------------------------------------------------------------
(* __str__                                                                 *)

\* The heap of the current state.
Heap == [objs |-> objs, lists |-> lists, dicts |-> dicts]

Digits == <<"0", "1", "2", "3", "4", "5", "6", "7", "8", "9">>

RECURSIVE IntStr(_)
\* str(n), n >= 0
IntStr(n) ==
    IF n < 10 THEN Digits[n + 1]
    ELSE IntStr(n \div 10) \o Digits[(n % 10) + 1]

RECURSIVE Join(_, _)
\* sep.join(strs)
Join(sep, strs) ==
    IF strs = <<>> THEN ""
    ELSE IF Len(strs) = 1 THEN strs[1]
    ELSE strs[1] \o sep \o Join(sep, Tail(strs))

RECURSIVE Repr(_)
\* repr(x), for what a list shows of its elements
Repr(x) ==
    CASE x.t = "str" -> "'" \o x.s \o "'"
      [] x.t = "int" -> IntStr(x.n)
      [] x.t = "bool" -> IF x.n = 1 THEN "True" ELSE "False"
      [] x.t = "none" -> "None"
      [] x.t = "list" ->
            "[" \o Join(", ", [i \in DOMAIN x.items |-> Repr(x.items[i])]) \o "]"

RECURSIVE Str(_)
\* map(str, contents)
StrEach(contents) == [i \in DOMAIN contents |-> Str(contents[i])]

RECURSIVE GutsItems(_)
\* The loop of _openTagGuts: one item per attribute, none for False.
GutsItems(attrs) ==
    IF attrs = <<>> THEN <<>>
    ELSE LET k == attrs[1].s
             v == attrs[1].items[1]
         IN  (IF v = PyTrue THEN <<k>>
              ELSE IF v # PyFalse THEN <<k \o "=\"" \o Str(v) \o "\"">>
              ELSE <<>>)
             \o GutsItems(Tail(attrs))

\* Tag._openTagGuts
OpenTagGuts(o) == Join(" ", <<o.tagName.s>> \o GutsItems(dicts[o.attrs]))

\* Mutant: a LONE tag without contents is closed like a NORMAL one.
TagWrap_NoLone(o, contentStr) ==
    IF lists[o.contents] # <<>> \/ PyEq(o.tagType, PyInt(FORCED_PAIR))
    THEN "<" \o OpenTagGuts(o) \o ">" \o spacer \o contentStr \o spacer
         \o "</" \o o.tagName.s \o ">"
    ELSE "<" \o OpenTagGuts(o) \o " />"

\* Tag.wrap
TagWrap(o, contentStr) ==
    IF lists[o.contents] # <<>> \/ PyEq(o.tagType, PyInt(FORCED_PAIR))
    THEN "<" \o OpenTagGuts(o) \o ">" \o spacer \o contentStr \o spacer
         \o "</" \o o.tagName.s \o ">"
    ELSE IF PyEq(o.tagType, PyInt(LONE))
    THEN "<" \o OpenTagGuts(o) \o ">"
    ELSE "<" \o OpenTagGuts(o) \o " />"

\* TagList.wrap
TagListWrap(o, contentStr) == contentStr

\* HTMLContainer.__str__ and Pseudotag.__str__, of the container objs[i]
ContainerStr(i) ==
    LET o == objs[i]
        contentStr == Join(spacer, StrEach(lists[o.contents]))
    IN  CASE o.cls = "TagList" -> TagListWrap(o, contentStr)
          [] o.cls = "Tag" -> TagWrap(o, contentStr)
          [] OTHER -> Str(Ref(o.outer))

\* str(x)
Str(x) ==
    CASE x.t = "str" -> x.s
      [] x.t = "int" -> IntStr(x.n)
      [] x.t = "obj" -> x.s
      [] x.t = "ref" -> ContainerStr(x.n)
      [] OTHER -> Repr(x)

-----------------------------------------------------------------------------
(* The operations.                                                         *)

\* What `last` records of an operation.
Op(op, cls, target, result, args, attrs) ==
    [op |-> op, cls |-> cls, target |-> target, result |-> result,
     args |-> args, attrs |-> attrs]

\* The values HTMLContainer.spacer is set to before the library is used.
Spacers == {"", "\n"}

Init ==
    /\ objs = ModuleHeap.objs
    /\ lists = ModuleHeap.lists
    /\ dicts = ModuleHeap.dicts
    /\ spacer \in Spacers
    /\ err = ""
    /\ last = Op("load", "", 0, 0, <<>>, <<>>)

\* cls(*args, **attrs): a constructor call
New(cls, args, attrs) ==
    LET r == Construct(Heap, cls, args, attrs)
    IN  /\ objs' = r.h.objs
        /\ lists' = r.h.lists
        /\ dicts' = r.h.dicts
        /\ err' = r.err
        /\ last' = Op("new", cls, 0, r.id, args, attrs)
        /\ UNCHANGED spacer

\* objs[c](*newContents, **newAttrs)
Call(c, newContents, newAttrs) ==
    LET r == CallContainer(Heap, c, newContents, newAttrs)
    IN  /\ objs' = r.h.objs
        /\ lists' = r.h.lists
        /\ dicts' = r.h.dicts
        /\ err' = r.err
        /\ last' = Op("call", objs[c].cls, c, r.id, newContents, newAttrs)
        /\ UNCHANGED spacer

\* objs[c][i - 1] = v (__setitem__), i a valid position
SetItem(c, i, v) ==
    /\ i \in DOMAIN lists[objs[c].contents]
    /\ lists' = [lists EXCEPT ![objs[c].contents][i] = v]
    /\ err' = ""
    /\ last' = Op("setitem", objs[c].cls, c, 0, <<PyInt(i - 1), v>>, <<>>)
    /\ UNCHANGED <<objs, dicts, spacer>>

\* objs[c].insert(i - 1, v): __getattr__ hands out the list's own method
Insert(c, i, v) ==
    LET l == lists[objs[c].contents]
    IN  /\ i \in 1..(Len(l) + 1)
        /\ Len(l) < MaxLen
        /\ lists' = [lists EXCEPT ![objs[c].contents] =
                        SubSeq(l, 1, i - 1) \o <<v>> \o SubSeq(l, i, Len(l))]
        /\ err' = ""
        /\ last' = Op("insert", objs[c].cls, c, 0, <<PyInt(i - 1), v>>, <<>>)
        /\ UNCHANGED <<objs, dicts, spacer>>

\* objs[c].append(v)
AppendItem(c, v) ==
    /\ Len(lists[objs[c].contents]) < MaxLen
    /\ lists' = [lists EXCEPT ![objs[c].contents] = Append(@, v)]
    /\ err' = ""
    /\ last' = Op("append", objs[c].cls, c, 0, <<v>>, <<>>)
    /\ UNCHANGED <<objs, dicts, spacer>>

\* objs[c].pop(i - 1), i a valid position
Pop(c, i) ==
    LET l == lists[objs[c].contents]
    IN  /\ i \in DOMAIN l
        /\ lists' = [lists EXCEPT ![objs[c].contents] =
                        SubSeq(l, 1, i - 1) \o SubSeq(l, i + 1, Len(l))]
        /\ err' = ""
        /\ last' = Op("pop", objs[c].cls, c, 0, <<PyInt(i - 1)>>, <<>>)
        /\ UNCHANGED <<objs, dicts, spacer>>

\* objs[c][i - 1] (__getitem__), i a valid position
GetItem(c, i) == lists[objs[c].contents][i]

\* The containers made by the caller, not by loading the module.
Created == (GETJQ + 1)..Len(objs)

\* Room for one more container.
Room == Len(objs) < GETJQ + MaxObjs

\* The container the list-style operations are tried on: the newest one,
\* while it is short, and straight after it was made or appended to.
Short ==
    {c \in Created : /\ c = Len(objs)
                     /\ Len(lists[objs[c].contents]) <= MaxLen
                     /\ last.op \in {"new", "call", "append"}}

-----------------------------------------------------------------------------
(* The arguments the operations are tried with.                            *)

StrA == PyStr("a")

StrB == PyStr("b")

StrC == PyStr("c")

StrD == PyStr("d")

StrE == PyStr("e")

StrEmpty == PyStr("")

Five == PyInt(5)

ValV == PyStr("v")

ValW == PyStr("w")

\* Extension arguments: contents x and attributes a.
In(x, a) == [x |-> x, a |-> a]

CallInputs ==
    { In(<<>>, <<>>),
      In(<<StrA>>, <<>>),
      In(<<StrEmpty>>, <<>>),
      In(<<PyList(<<StrB, PyList(<<Five, Ref(Cat("BR"))>>)>>)>>, <<>>),
      In(<<>>, <<Pair("class_", ValV)>>),
      In(<<>>, <<Pair("class_", ValW)>>),
      In(<<>>, <<Pair("class_", ValV), Pair("class", ValW)>>),
      In(<<>>, <<Pair("selected", PyTrue)>>),
      In(<<>>, <<Pair("selected", PyFalse)>>),
      In(<<StrA>>, <<Pair("class_", ValW), Pair("id", Five)>>) }

\* The catalog tags the caller extends: one of each tag type.
CallTargets == {Cat("DIV"), Cat("BR"), Cat("SCRIPT")} \cup Created

-----------------------------------------------------------------------------
(* Extension and rendering of TagLists and Tags.                           *)

Next ==
    \/ \E c \in CallTargets, i \in CallInputs : Room /\ Call(c, i.x, i.a)
    \/ \E args \in {<<>>, <<StrA>>} : Room /\ New("TagList", args, <<>>)

Spec == Init /\ [][Next]_vars

-----------------------------------------------------------------------------
(* What the claims speak of.                                               *)

InPlaceOps == {"setitem", "insert", "append", "pop"}

\* The last operation was a constructor or extension call that returned.
Returned(op) == last.op = op /\ err = ""

\* A child that stays one child: a string, an object marked atomic (a Tag or
\* Pseudotag, or a custom object with a truthy marker), or a value that cannot
\* be iterated.
IsLeaf(x) ==
    \/ x.t = "str"
    \/ x.t = "obj" /\ x.n # 0
    \/ x.t = "ref" /\ objs[x.n].cls # "TagList"
    \/ x.t \in {"int", "bool", "none"}

RECURSIVE Leaves(_)
\* The depth-first, left-to-right flattening of a sequence of values.
Leaves(xs) ==
    IF xs = <<>> THEN <<>>
    ELSE (IF IsLeaf(xs[1]) THEN <<xs[1]>>
          ELSE IF xs[1].t = "ref" THEN Leaves(lists[objs[xs[1].n].contents])
          ELSE Leaves(xs[1].items))
         \o Leaves(Tail(xs))

\* No raw iterable among the children.
FlatList(l) == \A j \in DOMAIN l : IsLeaf(l[j])

\* The HTML name of an attribute given as a keyword.
HtmlName(k) ==
    CASE k = "class_" -> "class"
      [] k = "for_" -> "for"
      [] OTHER -> k

------------------------------------------------------------------------------
\* C3: extending a TagList or Tag c built by construction and extension gives
\* a container of the same class with the same extra arguments, whose
\* contents are c's followed by the flattening of the new contents, and whose
\* attributes are c's updated with the new ones under their HTML names: every
\* key of c and every new key is there once, under its HTML name; a key given
\* anew has the value given (one of them, if it was given under both of its
\* names); any other key keeps c's value.
C3_ExtensionResult ==
    (Returned("call") /\ last.cls \in {"TagList", "Tag"}) =>
        LET c == objs[last.target]
            r == objs[last.result]
            old == dicts[c.attrs]
            new == dicts[r.attrs]
            given(k) == {j \in DOMAIN last.attrs : HtmlName(last.attrs[j].s) = k}
        IN  /\ r.cls = c.cls
            /\ r.extraArgs = c.extraArgs
            /\ r.tagName = c.tagName /\ r.tagType = c.tagType
            /\ lists[r.contents] = lists[c.contents] \o Leaves(last.args)
            /\ Cardinality(DictKeys(new)) = Len(new)
            /\ DictKeys(new) = DictKeys(old)
                                \cup {HtmlName(k) : k \in DictKeys(last.attrs)}
            /\ \A k \in DictKeys(new) :
                  IF given(k) = {}
                  THEN DictGet(new, k) = DictGet(old, k)
                  ELSE DictGet(new, k) \in
                           {last.attrs[j].items[1] : j \in given(k)}

\* c holds class = v1 and is extended with class_ = v2 and new contents.
C3_Witness ==
    /\ Returned("call")
    /\ last.args # <<>>
    /\ DictHas(dicts[objs[last.target].attrs], "class")
    /\ DictHas(last.attrs, "class_")
    /\ DictGet(last.attrs, "class_") # DictGet(dicts[objs[last.target].attrs], "class")
    /\ DictGet(dicts[objs[last.result].attrs], "class") = DictGet(last.attrs, "class_")

------------------------------------------------------------------------------
\* The open tag as the claim describes it: the name, then for each attribute
\* the bare name (True), nothing (False) or name="value".
OpenText(o) ==
    LET a == dicts[o.attrs]
        item(j) == IF a[j].items[1] = PyTrue THEN " " \o a[j].s
                   ELSE IF a[j].items[1] = PyFalse THEN ""
                   ELSE " " \o a[j].s \o "=\"" \o Str(a[j].items[1]) \o "\""
        upto[j \in 0..Len(a)] == IF j = 0 THEN "" ELSE upto[j - 1] \o item(j)
    IN  o.tagName.s \o upto[Len(a)]

\* The spacer-join of the children's texts.
InnerText(o) == Join(spacer, [j \in DOMAIN lists[o.contents] |->
                                 Str(lists[o.contents][j])])

Tags == {i \in DOMAIN objs : objs[i].cls = "Tag"}

\* The text of a Tag, with `around` between the tags and the inner text.
TagText(o, around) ==
    IF lists[o.contents] # <<>> \/ o.tagType.n = FORCED_PAIR
    THEN "<" \o OpenText(o) \o ">" \o around \o InnerText(o) \o around
         \o "</" \o o.tagName.s \o ">"
    ELSE IF o.tagType.n = LONE
    THEN "<" \o OpenText(o) \o ">"
    ELSE "<" \o OpenText(o) \o " />"

\* C4 as stated: the text of a Tag is <open> + innerText + </n> when it has
\* contents or is FORCED_PAIR, <open> when it is LONE, <open /> otherwise.
C4_AsStated == \A i \in Tags : Str(Ref(i)) = TagText(objs[i], "")

\* C4, amended: as stated, with the spacer also between the open tag and the
\* inner text and between the inner text and the close tag.
C4_TagText == \A i \in Tags : Str(Ref(i)) = TagText(objs[i], spacer)

\* A Tag made by the caller with contents, a bare attribute and a valued one,
\* rendered with a spacer that shows.
C4_Witness ==
    \E i \in Tags \cap Created :
        /\ lists[objs[i].contents] # <<>>
        /\ \E j \in DOMAIN dicts[objs[i].attrs] :
              dicts[objs[i].attrs][j].items[1] = PyTrue
        /\ spacer # ""

------------------------------------------------------------------------------
\* How an attribute value shows in the open tag: "" when it does not.
AttrText(k, v) ==
    IF v = PyTrue THEN k
    ELSE IF v = PyFalse THEN ""
    ELSE k \o "=\"" \o Str(v) \o "\""

\* How the attribute k of the dict d shows, "" when d has no k.
ShownAs(d, k) == IF DictHas(d, k) THEN AttrText(k, DictGet(d, k)) ELSE ""

\* The arguments of the last call give a key c does not have, or a value c
\* does not have for it.
NewOrChangedKey ==
    \E j \in DOMAIN last.attrs :
        LET k == HtmlName(last.attrs[j].s)
            d == dicts[objs[last.target].attrs]
        IN  ~DictHas(d, k) \/ DictGet(d, k) # last.attrs[j].items[1]

\* C8 as stated: the text of c(x, **attrs) differs from the text of c when x
\* is not empty or attrs gives a new or changed key.
C8_AsStated ==
    (Returned("call") /\ last.cls \in {"TagList", "Tag"}
        /\ (last.args # <<>> \/ NewOrChangedKey)) =>
        Str(Ref(last.result)) # Str(Ref(last.target))

\* C8, amended: for c holding no raw iterable, the text of c(x) differs from
\* the text of c when the flattening of x has a child whose text is not empty,
\* or has any child and c is a Tag without contents that is not FORCED_PAIR;
\* and the text of c(k = v) differs from the text of c when c is a Tag and k
\* shows in the open tag differently from before (bare, absent, or with
\* another value).
C8_TextChanges ==
    (Returned("call") /\ last.cls \in {"TagList", "Tag"}
        /\ FlatList(lists[objs[last.target].contents])) =>
        LET c == objs[last.target]
            added == Leaves(last.args)
            k == HtmlName(last.attrs[1].s)
        IN  /\ (/\ last.attrs = <<>>
                /\ \/ \E j \in DOMAIN added : Str(added[j]) # ""
                   \/ /\ added # <<>>
                      /\ c.cls = "Tag"
                      /\ lists[c.contents] = <<>>
                      /\ c.tagType.n # FORCED_PAIR)
               => Str(Ref(last.result)) # Str(Ref(last.target))
            /\ (/\ added = <<>>
                /\ c.cls = "Tag"
                /\ Len(last.attrs) = 1
                /\ AttrText(k, last.attrs[1].items[1]) # ShownAs(dicts[c.attrs], k))
               => Str(Ref(last.result)) # Str(Ref(last.target))

\* An attribute of a Tag is given another value, and the text changes.
C8_Witness ==
    /\ Returned("call")
    /\ objs[last.target].cls = "Tag"
    /\ last.args = <<>>
    /\ Len(last.attrs) = 1
    /\ DictHas(dicts[objs[last.target].attrs], HtmlName(last.attrs[1].s))
    /\ AttrText(HtmlName(last.attrs[1].s), last.attrs[1].items[1])
         # ShownAs(dicts[objs[last.target].attrs], HtmlName(last.attrs[1].s))
    /\ Str(Ref(last.result)) # Str(Ref(last.target))

-----------------------------------------------------------------------------
(* Extension followed by list-style changes of the result.                 *)

CopyInputs ==
    { In(<<StrA>>, <<>>),
      In(<<>>, <<Pair("class_", ValV)>>),
      In(<<StrA>>, <<Pair("class_", ValW)>>) }

NextCopy ==
    \/ \E c \in {Cat("DIV")} \cup Created, i \in CopyInputs :
          Room /\ Call(c, i.x, i.a)
    \/ Room /\ New("TagList", <<StrA>>, <<>>)
    \/ \E c \in Short : SetItem(c, 1, StrB)
    \/ \E c \in Short : Insert(c, 1, StrB)
    \/ \E c \in Short : AppendItem(c, StrB)
    \/ \E c \in Short : Pop(c, 1)

SpecCopy == Init /\ [][NextCopy]_vars

\* No two TagLists or Tags have the same contents list or the same attrs dict.
NothingShared ==
    \A i, j \in DOMAIN objs :
        i # j => /\ objs[i].contents # objs[j].contents
                 /\ objs[i].attrs # objs[j].attrs

\* The tags of the catalog have no contents and no attributes.
CatalogEmpty ==
    \A i \in DOMAIN Catalog :
        lists[objs[i].contents] = <<>> /\ dicts[objs[i].attrs] = <<>>

\* A call leaves every container there was as it was: its fields, its
\* contents and its attributes.
CallKeeps ==
    last'.op = "call" =>
        \A i \in DOMAIN objs :
            /\ objs'[i] = objs[i]
            /\ lists'[objs[i].contents] = lists[objs[i].contents]
            /\ dicts'[objs[i].attrs] = dicts[objs[i].attrs]

\* A list-style change of one container leaves the contents and the text of
\* every other container as they were.
ChangeKeeps ==
    last'.op \in InPlaceOps =>
        \A i \in DOMAIN objs \ {last'.target} :
            /\ lists'[objs[i].contents] = lists[objs[i].contents]
            /\ Str(Ref(i))' = Str(Ref(i))

\* C2: calling a TagList or Tag c changes nothing of c (nor of any other
\* container: the catalog tags stay empty), the container returned has a
\* contents list and an attrs dict of its own, and changing it by index
\* afterwards leaves c's contents and text as they were.
C2_CallLeavesReceiver ==
    /\ [](NothingShared /\ CatalogEmpty)
    /\ [][CallKeeps /\ ChangeKeeps]_vars

\* A Tag with attributes, which only a call returns, was made from a
\* container that is still there and has then been changed by index.
C2_Witness ==
    /\ last.op \in InPlaceOps
    /\ objs[last.target].cls = "Tag"
    /\ dicts[objs[last.target].attrs] # <<>>
    /\ \E c \in Created \ {last.target} :
          lists[objs[c].contents] # lists[objs[last.target].contents]

-----------------------------------------------------------------------------
(* Flattening at construction, and the list-style operations.              *)

\* [a, [b, [c, d]], e]
NestedExample == <<StrA, PyList(<<StrB, PyList(<<StrC, StrD>>)>>), StrE>>

FlatExample == <<StrA, StrB, StrC, StrD, StrE>>

RawList == PyList(<<StrB>>)

\* Contents for a TagList: none; nested lists; custom iterables, one marked
\* atomic and one marked not; an existing container and a string of several
\* characters.
FlatArgs ==
    { <<>>, NestedExample,
      <<PyObj("m", 1, <<StrA>>), PyObj("u", 0, <<StrB, Five>>)>> }
    \cup {<<Ref(c), PyStr("ab")>> : c \in Created}

\* Tag types: NORMAL, True (which equals LONE), and two that are unknown.
TagTypes == {PyInt(NORMAL), PyTrue, PyInt(3), PyStr("x")}

NextFlatten ==
    \/ \E args \in FlatArgs : Room /\ New("TagList", args, <<>>)
    \/ \E k \in TagTypes :
          Room /\ New("Tag", <<PyStr("p"), k, PyList(<<StrA, RawList>>)>>, <<>>)
    \/ \E c \in Created : Room /\ Call(c, <<RawList>>, <<>>)
    \/ \E c \in Short : SetItem(c, 1, RawList)
    \/ \E c \in Short : Insert(c, 1, StrA)
    \/ \E c \in Short : AppendItem(c, RawList)
    \/ \E c \in Short : Pop(c, 1)

SpecFlatten == Init /\ [][NextFlatten]_vars

------------------------------------------------------------------------------
\* The positional contents of the last constructor call.
GivenContents ==
    IF last.cls = "Tag" THEN SubSeq(last.args, 3, Len(last.args)) ELSE last.args

\* C1: the contents of a TagList or Tag just constructed are the depth-first,
\* left-to-right flattening of the contents given: strings, atomic-marked
\* objects and values that cannot be iterated stay one child each, every
\* other value gives way to the flattening of its elements.  [a, [b, [c, d]],
\* e] gives what [a, b, c, d, e] gives.  An extension, which constructs from
\* the receiver's contents and the new ones, flattens both.
C1_Flattening ==
    /\ (Returned("new") /\ last.cls \in {"TagList", "Tag"}) =>
          /\ lists[objs[last.result].contents] = Leaves(GivenContents)
          /\ last.args = NestedExample =>
                lists[objs[last.result].contents] = FlatExample
    /\ (Returned("call") /\ last.cls \in {"TagList", "Tag"}) =>
          lists[objs[last.result].contents] =
              Leaves(lists[objs[last.target].contents] \o last.args)

\* A TagList was made of an existing TagList that has contents, and a string
\* of several characters.
C1_Witness ==
    /\ Returned("new")
    /\ last.cls = "TagList"
    /\ Len(last.args) = 2
    /\ last.args[1].t = "ref"
    /\ objs[last.args[1].n].cls = "TagList"
    /\ lists[objs[last.args[1].n].contents] # <<>>
    /\ lists[objs[last.result].contents] =
           lists[objs[last.args[1].n].contents] \o <<PyStr("ab")>>

------------------------------------------------------------------------------
\* A tag type that is one of NORMAL, LONE, FORCED_PAIR.
KnownTagType(k) ==
    k.t \in {"int", "bool"} /\ k.n \in {NORMAL, LONE, FORCED_PAIR}

\* C5 as stated: constructing a Tag with an unknown tag type raises
\* ValueError and gives no container, so every Tag there is has a known one.
C5_AsStated ==
    /\ (last.op = "new" /\ last.cls = "Tag" /\ ~KnownTagType(last.args[2])) =>
          err = "ValueError" /\ last.result = 0
    /\ \A i \in Tags : KnownTagType(objs[i].tagType)

------------------------------------------------------------------------------
\* C7 as stated: no container ever holds a raw iterable, whatever was done to
\* it.
C7_AsStated == \A i \in DOMAIN objs : FlatList(lists[objs[i].contents])

\* The last operation stored a raw iterable in the list l.
StoredRaw(l) ==
    /\ last.op \in {"setitem", "insert", "append"}
    /\ objs[last.target].contents = l
    /\ ~IsLeaf(last.args[Len(last.args)])

\* C7, amended: a container just returned by a constructor or an extension
\* holds no raw iterable, and a container that holds none keeps holding none
\* through every operation but an index assignment, insert or append of a
\* raw iterable to it, which stores the value as it is.
C7_FlatUnlessStored ==
    [][\A i \in DOMAIN objs' :
          IF i \notin DOMAIN objs
          THEN FlatList(lists[objs[i].contents])'
          ELSE (FlatList(lists[objs[i].contents]) /\ ~StoredRaw(objs[i].contents)')
                  => FlatList(lists[objs[i].contents])']_vars

\* A container holding a raw iterable that was stored by index has been
\* extended, and the extension holds none.
C7_Witness ==
    /\ Returned("call")
    /\ ~FlatList(lists[objs[last.target].contents])
    /\ FlatList(lists[objs[last.result].contents])

-----------------------------------------------------------------------------
(* The Pseudotags.                                                         *)

Composites == {i \in DOMAIN objs : objs[i].cls \in PseudoClasses}

\* Room for one more Pseudotag.
PseudoRoom == Cardinality(Composites) < MaxPseudo

\* LABIN(labelText, name, labelAttrs = {}, **kwargs)
LabinInputs ==
    { In(<<PyStr("L"), PyStr("n"), PyDict(<<Pair("id", ValV)>>)>>,
         <<Pair("type", PyStr("text"))>>) }

\* SIMPLEPAGE(*args, **kwargs)
SimplepageInputs ==
    { In(<<>>, <<>>),
      In(<<StrA>>, <<Pair("lang", PyStr("en"))>>),
      In(<<Ref(Cat("DIV"))>>, <<>>) }

\* PAGE(title, css, *args, **kwargs)
PageInputs ==
    { In(<<PyStr("T"), StrEmpty, PyList(<<StrA>>)>>,
         <<Pair("class_", ValV)>>) }

\* JQPAGE(title, css, *args, **kwargs)
JqpageInputs == { In(<<PyStr("T"), PyStr("s.css")>>, <<>>) }

\* Extensions of a Pseudotag: an attribute, and a child.
PseudoCallInputs ==
    { In(<<>>, <<Pair("class_", ValW)>>),
      In(<<StrB>>, <<>>) }

\* The Pseudotag the list-style operations go through, itself or its inner
\* container: the newest, straight after it was made, while there is room
\* to extend it afterwards.
Through ==
    {p \in Composites :
        p = Len(objs) /\ PseudoRoom /\ last.op \in {"new", "call"}}

NextPseudo ==
    \/ \E in \in LabinInputs : PseudoRoom /\ New("LABIN", in.x, in.a)
    \/ \E in \in SimplepageInputs : PseudoRoom /\ New("SIMPLEPAGE", in.x, in.a)
    \/ \E in \in PageInputs : PseudoRoom /\ New("PAGE", in.x, in.a)
    \/ \E in \in JqpageInputs : PseudoRoom /\ New("JQPAGE", in.x, in.a)
    \/ \E p \in Composites, in \in PseudoCallInputs :
          PseudoRoom /\ Call(p, in.x, in.a)
    \/ \E p \in Through : SetItem(p, 1, StrC)
    \/ \E p \in Through : Insert(objs[p].inner, 1, StrC)
    \/ \E p \in Through : AppendItem(p, StrD)
    \/ \E p \in Through : Pop(objs[p].inner, 1)

SpecPseudo == Init /\ [][NextPseudo]_vars

------------------------------------------------------------------------------
RECURSIVE Under(_)
\* The containers held, at any depth, in the contents of container o.
Under(o) ==
    LET l == lists[objs[o].contents]
    IN  UNION {IF l[j].t = "ref" THEN {l[j].n} \cup Under(l[j].n) ELSE {} :
               j \in DOMAIN l}

DoctypeText == "<!DOCTYPE html>"

\* The text of the skeleton before the inner container's text.
SkeletonBefore(p) ==
    CASE objs[p].cls = "LABIN" ->
           Str(lists[objs[objs[p].outer].contents][1]) \o spacer
      [] objs[p].cls = "SIMPLEPAGE" -> DoctypeText \o spacer
      [] OTHER ->
           LET html == lists[objs[objs[p].outer].contents][2].n
           IN  DoctypeText \o spacer \o "<html>" \o spacer
                 \o Str(lists[objs[html].contents][1]) \o spacer

\* The text of the skeleton after the inner container's text.
SkeletonAfter(p) ==
    IF objs[p].cls \in {"PAGE", "JQPAGE"} THEN spacer \o "</html>" ELSE ""

\* C6: for every Pseudotag, whatever index assignments, inserts, appends and
\* pops went through it or through its inner container: its contents is the
\* very list of the inner container, so reading it by index gives the
\* inner's children; its text is the text of its outer container; the outer
\* container holds the inner one itself, and the text is the skeleton's text
\* around the inner container's text as it now is.
C6_Delegation ==
    \A p \in Composites :
        /\ objs[p].contents = objs[objs[p].inner].contents
        /\ \A i \in DOMAIN lists[objs[p].contents] :
              GetItem(p, i) = lists[objs[objs[p].inner].contents][i]
        /\ Str(Ref(p)) = Str(Ref(objs[p].outer))
        /\ objs[p].inner \in Under(objs[p].outer)
        /\ Str(Ref(p)) =
              SkeletonBefore(p) \o Str(Ref(objs[p].inner)) \o SkeletonAfter(p)

\* A value was appended through a PAGE whose body had children, and is the
\* last child of the body.
C6_Witness ==
    /\ last.op = "append"
    /\ last.target \in Composites
    /\ objs[last.target].cls = "PAGE"
    /\ Len(lists[objs[objs[last.target].inner].contents]) > 1
    /\ lists[objs[objs[last.target].inner].contents]
           [Len(lists[objs[objs[last.target].inner].contents])] = last.args[1]

------------------------------------------------------------------------------
\* The name of the tag a Pseudotag class documents as its heart.
HeartName(cls) ==
    CASE cls = "LABIN" -> "input"
      [] cls = "SIMPLEPAGE" -> "html"
      [] OTHER -> "body"

\* The positional contents given for the heart.
HeartContents(cls, args) ==
    CASE cls = "LABIN" -> <<>>
      [] cls = "SIMPLEPAGE" -> args
      [] OTHER -> SubSeq(args, 3, Len(args))

\* C9 as stated: constructing any of the four Pseudotags with arguments of
\* its documented signature succeeds; the inner container is the heart tag
\* (input, html, body) holding the flattened positional contents, and the
\* outer container is built around that very container, its text starting
\* with the surrounding structure.
C9_AsStated ==
    (last.op = "new" /\ last.cls \in PseudoClasses) =>
        /\ err = ""
        /\ objs[objs[last.result].inner].tagName = PyStr(HeartName(last.cls))
        /\ lists[objs[objs[last.result].inner].contents] =
               Leaves(HeartContents(last.cls, last.args))
        /\ objs[last.result].inner \in Under(objs[last.result].outer)
        /\ Str(Ref(last.result)) =
               SkeletonBefore(last.result)
                 \o Str(Ref(objs[last.result].inner))
                 \o SkeletonAfter(last.result)

------------------------------------------------------------------------------
\* C10 as stated: calling a LABIN, PAGE or JQPAGE with new contents and/or
\* attributes gives a new Pseudotag of the same class with the same extra
\* arguments, whose inner container holds the receiver's inner contents
\* followed by the flattened new contents, and the receiver's attributes
\* updated with the new ones.
C10_AsStated ==
    (last.op = "call" /\ last.cls \in {"LABIN", "PAGE", "JQPAGE"}) =>
        /\ err = ""
        /\ objs[last.result].cls = last.cls
        /\ objs[last.result].extraArgs = objs[last.target].extraArgs
        /\ lists[objs[objs[last.result].inner].contents] =
               lists[objs[objs[last.target].inner].contents]
                 \o Leaves(last.args)
        /\ \A k \in DictKeys(dicts[objs[last.target].attrs])
                      \cup DictKeys(RemapAttrs(last.attrs)) :
              /\ DictHas(dicts[objs[objs[last.result].inner].attrs], k)
              /\ DictGet(dicts[objs[objs[last.result].inner].attrs], k) =
                    IF DictHas(RemapAttrs(last.attrs), k)
                    THEN DictGet(RemapAttrs(last.attrs), k)
                    ELSE DictGet(dicts[objs[last.target].attrs], k)

====
